---- MODULE Spec2Model ----
(***************************************************************************)
(* A model of src/src/main.rs: the tokenizer, the recursive-descent        *)
(* Parser (peek / advance / parse_factor / parse_term / parse_expression / *)
(* parse) and main, which runs the tokenizer and then the parser.          *)
(*                                                                         *)
(* Characters are one-character strings.  An i64 value is represented by   *)
(* its canonical decimal numeral (a sequence of digit characters without   *)
(* leading zeros), because the values the code handles (up to 2^63 - 1)    *)
(* are wider than the integers of the model checker.                       *)
(***************************************************************************)
EXTENDS Integers, Sequences, FiniteSets, TLC

VARIABLES
    input,      \* tokenizer: the input text, a sequence of characters
    chars,      \* tokenizer: number of characters the peekable iterator has consumed
    lexTokens,  \* tokenizer: its local vector `tokens`
    tokenized,  \* the value tokenizer returned (Pending until it returns)
    tokens,     \* Parser.tokens
    current,    \* Parser.current
    stack,      \* the call stack of parse_expression / parse_term / parse_factor
    ret,        \* the value the last returned parser function returned
    pc,         \* where the program is: tokenizer, main, parser, done, panic
    prev        \* the outcome of an earlier parse, kept to compare a second parse with

vars == <<input, chars, lexTokens, tokenized, tokens, current, stack, ret, pc, prev>>

-----------------------------------------------------------------------------
(* Bounds of the model *)

\* longest enumerated input text
MaxLen == 4
\* longest enumerated token sequence handed to Parser::new
MaxToks == 4
\* largest number of parenthesis pairs wrapped around a parsed sequence
MaxWrap == 3
\* longest sequence of tokens put after the lookahead token of a parsed sequence
MaxSuffix == 1

-----------------------------------------------------------------------------
(* Tokens (enum Token) *)

Number(value) == [type |-> "Number", value |-> value]
Plus == [type |-> "Plus"]
Dash == [type |-> "Dash"]
Star == [type |-> "Star"]
Slash == [type |-> "Slash"]
LeftParen == [type |-> "LeftParen"]
RightParen == [type |-> "RightParen"]
EOF == [type |-> "EOF"]

\* Option::None, as returned by Vec::get past the end
None == [type |-> "None"]

(* Results: Result<_, SyntaxError> *)
Pending == [kind |-> "Pending"]
Err(message) == [kind |-> "Err", message |-> message]
OkTokens(toks) == [kind |-> "Ok", tokens |-> toks]
OkNode(node) == [kind |-> "Ok", node |-> node]

(* AST nodes (enum ASTNode) *)
NumberNode(value) == [kind |-> "Number", value |-> value]
BinaryOp(op, left, right) == [kind |-> "BinaryOp", op |-> op, left |-> left, right |-> right]
NoNode == [kind |-> "NoNode"]

-----------------------------------------------------------------------------
(* Characters *)

Digits == {"0", "1", "2", "3", "4", "5", "6", "7", "8", "9"}

\* char::is_whitespace, on the characters the model uses
Whitespace == {" ", "\t", "\n"}

DigitValue(ch) ==
    CASE ch = "0" -> 0 [] ch = "1" -> 1 [] ch = "2" -> 2 [] ch = "3" -> 3
      [] ch = "4" -> 4 [] ch = "5" -> 5 [] ch = "6" -> 6 [] ch = "7" -> 7
      [] ch = "8" -> 8 [] ch = "9" -> 9

\* the six single-character arms of the tokenizer's match
IsSymbol(ch) == ch \in {"(", ")", "+", "-", "*", "/"}

SymbolToken(ch) ==
    CASE ch = "(" -> LeftParen
      [] ch = ")" -> RightParen
      [] ch = "+" -> Plus
      [] ch = "-" -> Dash
      [] ch = "*" -> Star
      [] ch = "/" -> Slash

-----------------------------------------------------------------------------
(* number.parse::<i64>() on a non-empty string of ASCII digits *)

\* i64::MAX = 9223372036854775807
I64MaxDigits ==
    <<"9", "2", "2", "3", "3", "7", "2", "0", "3", "6",
      "8", "5", "4", "7", "7", "5", "8", "0", "7">>

RECURSIVE StripZeros(_)
StripZeros(ds) ==
    IF Len(ds) > 1 /\ Head(ds) = "0" THEN StripZeros(Tail(ds)) ELSE ds

\* a <= b for two numerals of the same length
RECURSIVE NumeralLeq(_, _)
NumeralLeq(a, b) ==
    IF a = <<>> THEN TRUE
    ELSE IF DigitValue(Head(a)) < DigitValue(Head(b)) THEN TRUE
    ELSE IF DigitValue(Head(a)) > DigitValue(Head(b)) THEN FALSE
    ELSE NumeralLeq(Tail(a), Tail(b))

\* a parse that rejects every numeral as long as i64::MAX
FitsI64Short(ds) == Len(StripZeros(ds)) < Len(I64MaxDigits)

\* the value fits i64: parse returns Ok, so unwrap does not panic
FitsI64(ds) ==
    LET n == StripZeros(ds) IN
        \/ Len(n) < Len(I64MaxDigits)
        \/ Len(n) = Len(I64MaxDigits) /\ NumeralLeq(n, I64MaxDigits)

\* the parsed value, as its canonical numeral
ParseI64(ds) == StripZeros(ds)

\* the inner loop of the '0'..='9' arm: the digits from position i + 1 on
RECURSIVE DigitRun(_, _)
DigitRun(text, i) ==
    IF i < Len(text) /\ text[i + 1] \in Digits
    THEN <<text[i + 1]>> \o DigitRun(text, i + 1)
    ELSE <<>>

-----------------------------------------------------------------------------
(* tokenizer *)

\* chars.peek()
PeekChar == IF chars < Len(input) THEN input[chars + 1] ELSE "<end>"

ParserIdle == <<tokens, current, stack, ret, prev>>

TokenizeWhitespace ==
    /\ pc = "tokenizer"
    /\ chars < Len(input)
    /\ PeekChar \in Whitespace
    /\ chars' = chars + 1
    /\ UNCHANGED <<input, lexTokens, tokenized, pc, ParserIdle>>

TokenizeSymbol ==
    /\ pc = "tokenizer"
    /\ chars < Len(input)
    /\ PeekChar \notin Whitespace
    /\ IsSymbol(PeekChar)
    /\ lexTokens' = Append(lexTokens, SymbolToken(PeekChar))
    /\ chars' = chars + 1
    /\ UNCHANGED <<input, tokenized, pc, ParserIdle>>

TokenizeNumber ==
    /\ pc = "tokenizer"
    /\ chars < Len(input)
    /\ PeekChar \notin Whitespace
    /\ PeekChar \in Digits
    /\ LET number == DigitRun(input, chars) IN
         IF FitsI64(number)
         THEN /\ lexTokens' = Append(lexTokens, Number(ParseI64(number)))
              /\ chars' = chars + Len(number)
              /\ pc' = pc
         ELSE \* unwrap() on Err: the process aborts
              /\ chars' = chars + Len(number)
              /\ pc' = "panic"
              /\ UNCHANGED lexTokens
    /\ UNCHANGED <<input, tokenized, ParserIdle>>

UnrecognizedMessage(ch) == <<"unrecognized character", ch>>

TokenizeUnrecognized ==
    /\ pc = "tokenizer"
    /\ chars < Len(input)
    /\ PeekChar \notin Whitespace
    /\ ~IsSymbol(PeekChar)
    /\ PeekChar \notin Digits
    /\ tokenized' = Err(UnrecognizedMessage(PeekChar))
    /\ lexTokens' = <<>>
    /\ pc' = "main"
    /\ UNCHANGED <<input, chars, ParserIdle>>

\* a tokenizer that returns its tokens without the final EOF
TokenizerResultNoEOF(toks) == OkTokens(toks)

\* what tokenizer returns at the end of the input
TokenizerResult(toks) == OkTokens(Append(toks, EOF))

TokenizeEnd ==
    /\ pc = "tokenizer"
    /\ chars = Len(input)
    /\ tokenized' = TokenizerResult(lexTokens)
    /\ lexTokens' = <<>>
    /\ pc' = "main"
    /\ UNCHANGED <<input, chars, ParserIdle>>

-----------------------------------------------------------------------------
(* Parser *)

\* Vec::get: self.tokens.get(self.current), the token peek and advance read
Get(toks, cur) == IF cur < Len(toks) THEN toks[cur + 1] ELSE None

\* Parser::peek
Peek == Get(tokens, current)

\* an advance that leaves the cursor where it is
AdvanceCursorStuck(cur) == cur

\* Parser::advance: self.current += 1, whatever get returned
AdvanceCursor(cur) == cur + 1

\* the pattern Token::Star | Token::Slash of parse_term
IsTermOp(tok) == tok \in {Star, Slash}

\* the pattern Token::Plus | Token::Dash of parse_expression
IsExpressionOp(tok) == tok \in {Plus, Dash}

\* a fold with the operands exchanged
FoldNodeSwapped(op, node, right) == BinaryOp(op, right, node)

\* ASTNode::BinaryOp { op, left: Box::new(node), right: Box::new(right) }
FoldNode(op, node, right) == BinaryOp(op, node, right)

\* a parse_factor that parses only a term between parentheses
ParenCalleeTerm == "parse_term"

\* the function parse_factor calls for the contents of parentheses
ParenCallee == "parse_expression"

\* precedence levels that all take factors as operands
OperandFlat(fn) == "parse_factor"

\* the function each precedence level calls for its operands
Operand(fn) == IF fn = "parse_expression" THEN "parse_term" ELSE "parse_factor"

IsLevelOp(fn, tok) ==
    IF fn = "parse_expression" THEN IsExpressionOp(tok) ELSE IsTermOp(tok)

Frame(fn) == [fn |-> fn, at |-> "entry", node |-> NoNode, op |-> None]

Top == stack[1]

InParser(fn, at) ==
    /\ pc = "parser"
    /\ stack # <<>>
    /\ Top.fn = fn
    /\ Top.at = at

LexerIdle == <<input, chars, lexTokens, tokenized>>

\* a call: the caller waits at `at`, the callee starts
Call(callee, at, node, op) ==
    stack' = <<Frame(callee)>> \o <<[Top EXCEPT !.at = at, !.node = node, !.op = op]>>
                \o Tail(stack)

\* a parse that requires the lookahead after the expression to be EOF
ParseStrict(value) ==
    IF value.kind = "Ok" /\ Peek # EOF THEN Err(<<"Unexpected trailing token", Peek>>)
    ELSE value

\* Parser::parse: what it returns, given what its parse_expression returned
Parse(value) == value

\* a return, to the caller or (from the outermost parse_expression) through
\* parse to main
Return(value) ==
    /\ stack' = Tail(stack)
    /\ ret' = IF Len(stack) = 1 THEN Parse(value) ELSE value
    /\ pc' = IF Len(stack) = 1 THEN "done" ELSE "parser"

UnexpectedToken(tok) == <<"Unexpected token", tok>>
UnexpectedEnd == <<"Unexpected end of input">>
ExpectedParen(found) == <<"Expected ')', but found", found>>

\* parse_factor: match self.advance() { ... }
FactorAdvance ==
    /\ InParser("parse_factor", "entry")
    /\ LET token == Get(tokens, current) IN
         /\ current' = AdvanceCursor(current)
         /\ IF token.type = "Number"
            THEN Return(OkNode(NumberNode(token.value)))
            ELSE IF token = LeftParen
            THEN /\ Call(ParenCallee, "paren", NoNode, None)
                 /\ ret' = Pending
                 /\ pc' = pc
            ELSE IF token # None
            THEN Return(Err(UnexpectedToken(token)))
            ELSE Return(Err(UnexpectedEnd))
    /\ UNCHANGED <<tokens, prev, LexerIdle>>

\* a parse_factor that takes the token after the parenthesized expression
\* without looking at it
CloseParenUnchecked(node, cur) == [current |-> AdvanceCursor(cur), value |-> OkNode(node)]

\* what parse_factor does once the parenthesized parse_expression returned Ok:
\* the cursor it leaves and the value it returns
CloseParen(node, cur) ==
    IF Get(tokens, cur) = RightParen
    THEN [current |-> AdvanceCursor(cur), value |-> OkNode(node)]
    ELSE [current |-> cur, value |-> Err(ExpectedParen(Get(tokens, cur)))]

\* parse_factor: after `self.parse_expression()?` of the LeftParen arm
FactorParen ==
    /\ InParser("parse_factor", "paren")
    /\ IF ret.kind = "Err"
       THEN /\ Return(ret)
            /\ current' = current
       ELSE LET r == CloseParen(ret.node, current) IN
            /\ current' = r.current
            /\ Return(r.value)
    /\ UNCHANGED <<tokens, prev, LexerIdle>>

\* parse_term / parse_expression: `let mut node = self.parse_factor()?` (the call)
LevelEntry(fn) ==
    /\ InParser(fn, "entry")
    /\ Call(Operand(fn), "first", NoNode, None)
    /\ ret' = Pending
    /\ UNCHANGED <<tokens, current, pc, prev, LexerIdle>>

\* parse_term / parse_expression: the `?` on the first operand
LevelFirst(fn) ==
    /\ InParser(fn, "first")
    /\ IF ret.kind = "Err"
       THEN Return(ret)
       ELSE /\ stack' = <<[Top EXCEPT !.at = "loop", !.node = ret.node]>> \o Tail(stack)
            /\ ret' = Pending
            /\ pc' = pc
    /\ UNCHANGED <<tokens, current, prev, LexerIdle>>

\* parse_term / parse_expression: one test of `while let Some(token) = self.peek()`
\* and, on an operator of the level, advance().expect(..) and the call for the
\* right operand; otherwise the break (or the end of the loop) and Ok(node)
LevelLoop(fn) ==
    /\ InParser(fn, "loop")
    /\ IF Peek # None /\ IsLevelOp(fn, Peek)
       THEN LET op == Get(tokens, current) IN
            /\ current' = AdvanceCursor(current)
            /\ IF op = None
               THEN \* expect() on None: the process aborts
                    /\ pc' = "panic"
                    /\ UNCHANGED <<stack, ret>>
               ELSE /\ Call(Operand(fn), "right", Top.node, op)
                    /\ ret' = Pending
                    /\ pc' = pc
       ELSE /\ Return(OkNode(Top.node))
            /\ current' = current
    /\ UNCHANGED <<tokens, prev, LexerIdle>>

\* parse_term / parse_expression: the `?` on the right operand, and the fold
LevelRight(fn) ==
    /\ InParser(fn, "right")
    /\ IF ret.kind = "Err"
       THEN Return(ret)
       ELSE /\ stack' = <<[Top EXCEPT !.at = "loop",
                                      !.node = FoldNode(Top.op, Top.node, ret.node),
                                      !.op = None]>> \o Tail(stack)
            /\ ret' = Pending
            /\ pc' = pc
    /\ UNCHANGED <<tokens, current, prev, LexerIdle>>

TermEntry == LevelEntry("parse_term")
TermFirst == LevelFirst("parse_term")
TermLoop == LevelLoop("parse_term")
TermRight == LevelRight("parse_term")

ExpressionEntry == LevelEntry("parse_expression")
ExpressionFirst == LevelFirst("parse_expression")
ExpressionLoop == LevelLoop("parse_expression")
ExpressionRight == LevelRight("parse_expression")

\* Parser::new(tokens) followed by parser.parse(), which calls parse_expression
NewParser(toks) ==
    /\ tokens' = toks
    /\ current' = 0
    /\ stack' = <<Frame("parse_expression")>>
    /\ ret' = Pending
    /\ pc' = "parser"

-----------------------------------------------------------------------------
(* main *)

\* Ok(tokens) => Parser::new(tokens), parser.parse()
MainParse ==
    /\ pc = "main"
    /\ tokenized.kind = "Ok"
    /\ NewParser(tokenized.tokens)
    /\ UNCHANGED <<prev, LexerIdle>>

\* Err(err) => eprintln!("Tokenization Error: ..")
MainTokenizationError ==
    /\ pc = "main"
    /\ tokenized.kind = "Err"
    /\ pc' = "done"
    /\ UNCHANGED <<tokens, current, stack, ret, prev, LexerIdle>>

-----------------------------------------------------------------------------
(* A second parse, made from the outcome of a first one, as a caller of    *)
(* Parser::new and parse may run it                                        *)

NoPrev == [mode |-> "none"]

\* toks (ending with EOF) with k pairs of parentheses around what precedes EOF
RECURSIVE Wrap(_, _)
Wrap(toks, k) ==
    IF k = 0 THEN toks
    ELSE Wrap(<<LeftParen>> \o SubSeq(toks, 1, Len(toks) - 1) \o <<RightParen, EOF>>, k - 1)

\* the first parse succeeded and consumed every token before the final EOF:
\* parse the same tokens wrapped in k pairs of parentheses
ReparseWrapped(k) ==
    /\ pc = "done"
    /\ prev = NoPrev
    /\ ret.kind = "Ok"
    /\ tokens # <<>>
    /\ tokens[Len(tokens)] = EOF
    /\ current = Len(tokens) - 1
    /\ prev' = [mode |-> "wrap", node |-> ret.node, current |-> current, pairs |-> k]
    /\ NewParser(Wrap(tokens, k))
    /\ UNCHANGED LexerIdle

\* the first parse succeeded and stopped at a lookahead token: parse the tokens
\* up to and including that lookahead, followed by other tokens
ReparseExtended(suffix) ==
    /\ pc = "done"
    /\ prev = NoPrev
    /\ ret.kind = "Ok"
    /\ current < Len(tokens)
    /\ prev' = [mode |-> "extend", node |-> ret.node, current |-> current]
    /\ NewParser(SubSeq(tokens, 1, current + 1) \o suffix)
    /\ UNCHANGED LexerIdle

-----------------------------------------------------------------------------
(* The inputs the model enumerates *)

SeqsUpTo(S, n) == UNION {[1..k -> S] : k \in 0..n}

\* characters of the enumerated input texts: digits, whitespace, the six
\* symbols and two characters the tokenizer does not recognize
Alphabet == {"0", "1", " ", "(", ")", "+", "-", "*", "/", "a", "b"}

Nines(n) == [i \in 1..n |-> "9"]

\* the input of main: "3 + 5 * (((10 - 2)))"
SampleText ==
    <<"3", " ", "+", " ", "5", " ", "*", " ", "(", "(", "(", "1", "0", " ", "-", " ",
      "2", ")", ")", ")">>

\* further texts: expressions, unbalanced parentheses, other whitespace, and
\* digit runs at and beyond i64::MAX
ExampleInputs ==
    { SampleText,
      <<"2", " ", "+", " ", "3", " ", "*", " ", "4">>,
      <<"8", " ", "-", " ", "3", " ", "-", " ", "2">>,
      <<"(", "(", "(", "5", ")", ")", ")">>,
      <<"(", "2", " ", "+", " ", "3">>,
      <<"2", " ", "+", " ", "3", ")">>,
      <<"\t", "7", "\n">>,
      I64MaxDigits,
      <<"0", "0">> \o I64MaxDigits \o <<"+", "1">>,
      SubSeq(I64MaxDigits, 1, 18) \o <<"8">>,
      SubSeq(I64MaxDigits, 1, 18) \o <<"8", "a">>,
      <<"a">> \o Nines(20),
      <<"1", "+">> \o Nines(20) }

Inputs == SeqsUpTo(Alphabet, MaxLen) \cup ExampleInputs

N(d) == Number(<<d>>)

\* the tokens of the enumerated token sequences
TokenAlphabet == {N("1"), N("2"), Plus, Dash, Star, Slash, LeftParen, RightParen, EOF}

Operators == {Plus, Dash, Star, Slash}

\* a o1 b o2 c EOF, for all operands and operators of the token alphabet
ThreeOperandCases ==
    { <<a, o1, b, o2, c, EOF>> :
        a \in {N("1"), N("2")}, b \in {N("1"), N("2")}, c \in {N("1"), N("2")},
        o1 \in Operators, o2 \in Operators }

\* the tokens of the input of main
SampleTokens ==
    <<N("3"), Plus, N("5"), Star, LeftParen, LeftParen, LeftParen, Number(<<"1", "0">>),
      Dash, N("2"), RightParen, RightParen, RightParen, EOF>>

\* further token sequences: longer expressions and unbalanced parentheses
ExampleTokens ==
    { SampleTokens,
      <<N("2"), Plus, N("3"), Star, N("4"), EOF>>,
      <<N("8"), Dash, N("3"), Dash, N("2"), EOF>>,
      <<N("8"), Slash, N("4"), Star, N("2"), Slash, N("1"), EOF>>,
      <<LeftParen, LeftParen, LeftParen, N("5"), RightParen, RightParen, RightParen, EOF>>,
      <<N("5"), EOF>>,
      <<LeftParen, N("2"), Plus, N("3"), EOF>>,
      <<LeftParen, N("2"), Plus, N("3")>>,
      <<N("2"), Plus, N("3"), RightParen, EOF>> }

TokenInputs == SeqsUpTo(TokenAlphabet, MaxToks) \cup ThreeOperandCases \cup ExampleTokens

-----------------------------------------------------------------------------
(* Specifications *)

\* main: the tokenizer on an input text, then the parser on its tokens
Init ==
    /\ input \in Inputs
    /\ chars = 0
    /\ lexTokens = <<>>
    /\ tokenized = Pending
    /\ tokens = <<>>
    /\ current = 0
    /\ stack = <<>>
    /\ ret = Pending
    /\ pc = "tokenizer"
    /\ prev = NoPrev

Tokenizer ==
    \/ TokenizeWhitespace
    \/ TokenizeSymbol
    \/ TokenizeNumber
    \/ TokenizeUnrecognized
    \/ TokenizeEnd

ParserStep ==
    \/ FactorAdvance
    \/ FactorParen
    \/ TermEntry
    \/ TermFirst
    \/ TermLoop
    \/ TermRight
    \/ ExpressionEntry
    \/ ExpressionFirst
    \/ ExpressionLoop
    \/ ExpressionRight

Next ==
    \/ Tokenizer
    \/ MainParse
    \/ MainTokenizationError
    \/ ParserStep

Spec == Init /\ [][Next]_vars

\* the parser alone, on any token sequence given to Parser::new
ParserInit ==
    /\ input = <<>>
    /\ chars = 0
    /\ lexTokens = <<>>
    /\ tokenized = Pending
    /\ tokens \in TokenInputs
    /\ current = 0
    /\ stack = <<Frame("parse_expression")>>
    /\ ret = Pending
    /\ pc = "parser"
    /\ prev = NoPrev

ParserNext ==
    \/ ParserStep
    \/ \E k \in 1..MaxWrap : ReparseWrapped(k)
    \/ \E suffix \in SeqsUpTo(TokenAlphabet, MaxSuffix) : ReparseExtended(suffix)

ParserSpec == ParserInit /\ [][ParserNext]_vars

\* a call that has started runs on: the code is sequential and never waits
FairParserSpec == ParserSpec /\ WF_vars(ParserStep)

-----------------------------------------------------------------------------
(* Properties *)

AdditiveOps == {Plus, Dash}
MultiplicativeOps == {Star, Slash}

IsNumber(tok) == tok.type = "Number"

Leaf(tok) == NumberNode(tok.value)

\* toks is body, or body followed by EOF
Holds(toks, body) == toks = body \/ toks = body \o <<EOF>>

\* C1: whenever tokenizer returns Ok, the sequence it returns is not empty, its
\* last element is EOF and no other element is EOF.
C1_EndsWithOneEOF ==
    tokenized.kind = "Ok" =>
        LET t == tokenized.tokens IN
            /\ Len(t) >= 1
            /\ t[Len(t)] = EOF
            /\ \A i \in 1..(Len(t) - 1) : t[i] # EOF

C1_Witness ==
    /\ tokenized.kind = "Ok"
    /\ input = <<"(", "1", "+", "0">>
    /\ tokenized.tokens = <<LeftParen, N("1"), Plus, N("0"), EOF>>

SampleTree ==
    BinaryOp(Plus, NumberNode(<<"3">>),
             BinaryOp(Star, NumberNode(<<"5">>),
                      BinaryOp(Dash, NumberNode(<<"1", "0">>), NumberNode(<<"2">>))))

\* C2: operator precedence.  Parsing a p b m c (p additive, m multiplicative)
\* yields BinaryOp(p, a, BinaryOp(m, b, c)); parsing a m b p c yields
\* BinaryOp(p, BinaryOp(m, a, b), c); 2 + 3 * 4 yields Plus(2, Star(3, 4)) and
\* 3 + 5 * (((10 - 2))) yields Plus(3, Star(5, Dash(10, 2))).
C2_Precedence ==
    pc = "done" =>
        /\ \A t \in {tokens} :
             (/\ Len(t) \in {5, 6}
              /\ Holds(t, SubSeq(t, 1, 5))
              /\ IsNumber(t[1]) /\ IsNumber(t[3]) /\ IsNumber(t[5]))
             =>
               /\ (t[2] \in AdditiveOps /\ t[4] \in MultiplicativeOps)
                    => ret = OkNode(BinaryOp(t[2], Leaf(t[1]),
                                             BinaryOp(t[4], Leaf(t[3]), Leaf(t[5]))))
               /\ (t[2] \in MultiplicativeOps /\ t[4] \in AdditiveOps)
                    => ret = OkNode(BinaryOp(t[4], BinaryOp(t[2], Leaf(t[1]), Leaf(t[3])),
                                             Leaf(t[5])))
        /\ tokens = <<N("2"), Plus, N("3"), Star, N("4"), EOF>>
             => ret = OkNode(BinaryOp(Plus, NumberNode(<<"2">>),
                                      BinaryOp(Star, NumberNode(<<"3">>), NumberNode(<<"4">>))))
        /\ tokens = SampleTokens => ret = OkNode(SampleTree)

C2_Witness ==
    /\ pc = "done"
    /\ tokens = SampleTokens
    /\ ret = OkNode(SampleTree)
    /\ current = Len(SampleTokens) - 1

\* body is operands joined by operators of one precedence level
IsChain(body) ==
    /\ Len(body) >= 3
    /\ Len(body) % 2 = 1
    /\ \A i \in 1..Len(body) : i % 2 = 1 => IsNumber(body[i])
    /\ \/ \A i \in 1..Len(body) : i % 2 = 0 => body[i] \in AdditiveOps
       \/ \A i \in 1..Len(body) : i % 2 = 0 => body[i] \in MultiplicativeOps

\* the tree that groups a chain from the left
RECURSIVE LeftFold(_)
LeftFold(body) ==
    IF Len(body) = 1 THEN Leaf(body[1])
    ELSE BinaryOp(body[Len(body) - 1],
                  LeftFold(SubSeq(body, 1, Len(body) - 2)),
                  Leaf(body[Len(body)]))

ChainBody(toks) ==
    IF toks # <<>> /\ toks[Len(toks)] = EOF THEN SubSeq(toks, 1, Len(toks) - 1) ELSE toks

\* C3: left associativity.  Parsing a chain of operands joined by operators of
\* one precedence level folds from the left: a op1 b op2 c yields
\* BinaryOp(op2, BinaryOp(op1, a, b), c), not BinaryOp(op1, a, BinaryOp(op2, b, c));
\* 8 - 3 - 2 yields Dash(Dash(8, 3), 2).
C3_LeftAssociative ==
    pc = "done" =>
        /\ IsChain(ChainBody(tokens)) =>
             /\ ret = OkNode(LeftFold(ChainBody(tokens)))
             /\ \A t \in {ChainBody(tokens)} :
                  Len(t) = 5 =>
                    /\ ret = OkNode(BinaryOp(t[4], BinaryOp(t[2], Leaf(t[1]), Leaf(t[3])),
                                             Leaf(t[5])))
                    /\ ret # OkNode(BinaryOp(t[2], Leaf(t[1]),
                                             BinaryOp(t[4], Leaf(t[3]), Leaf(t[5]))))
        /\ tokens = <<N("8"), Dash, N("3"), Dash, N("2"), EOF>>
             => ret = OkNode(BinaryOp(Dash,
                                      BinaryOp(Dash, NumberNode(<<"8">>), NumberNode(<<"3">>)),
                                      NumberNode(<<"2">>)))

C3_Witness ==
    /\ pc = "done"
    /\ tokens = <<N("8"), Slash, N("4"), Star, N("2"), Slash, N("1"), EOF>>
    /\ ret = OkNode(BinaryOp(Slash,
                             BinaryOp(Star,
                                      BinaryOp(Slash, NumberNode(<<"8">>), NumberNode(<<"4">>)),
                                      NumberNode(<<"2">>)),
                             NumberNode(<<"1">>)))

\* C4: during a parse, whatever token sequence Parser::new was given, the
\* cursor never exceeds the length of the token sequence, and a step taken with
\* the cursor at the end of the sequence leaves the cursor where it is.
C4_CursorWithinTokens ==
    [][pc = "parser" =>
         /\ current' <= Len(tokens)
         /\ current >= Len(tokens) => current' = current]_vars

\* the cursor does stay within a token sequence that ends with EOF, as every
\* sequence the tokenizer returns does
CursorWithinTerminatedTokens ==
    (tokens # <<>> /\ tokens[Len(tokens)] = EOF) => current <= Len(tokens)

Recognized(ch) == ch \in Digits \/ ch \in Whitespace \/ IsSymbol(ch)

HasUnrecognized(text) == \E i \in 1..Len(text) : ~Recognized(text[i])

\* the first character of text, in scan order, that the tokenizer does not recognize
FirstUnrecognized(text) ==
    text[CHOOSE i \in 1..Len(text) :
            /\ ~Recognized(text[i])
            /\ \A j \in 1..(i - 1) : Recognized(text[j])]

\* C5: on every input text that contains a character that is not an ASCII
\* digit, not whitespace and not one of ( ) + - * /, tokenizer returns a
\* SyntaxError naming the first such character, and no token sequence.
C5_UnrecognizedCharacterFails ==
    (HasUnrecognized(input) /\ pc # "tokenizer") =>
        /\ tokenized = Err(UnrecognizedMessage(FirstUnrecognized(input)))
        /\ tokens = <<>>

\* the number a string of digits denotes is at most 2^63 - 1 = 9223372036854775807:
\* without its leading zeros it is shorter than 19 digits, or it has 19 digits
\* and, where it first differs from 9223372036854775807, its digit is the smaller
WithinI64(ds) ==
    LET lead == CHOOSE k \in 0..Len(ds) :
                    /\ \A j \in 1..k : ds[j] = "0"
                    /\ k < Len(ds) => ds[k + 1] # "0"
        n == IF lead = Len(ds) THEN <<"0">> ELSE SubSeq(ds, lead + 1, Len(ds))
        max == <<9, 2, 2, 3, 3, 7, 2, 0, 3, 6, 8, 5, 4, 7, 7, 5, 8, 0, 7>>
    IN  \/ Len(n) < 19
        \/ /\ Len(n) = 19
           /\ \A i \in 1..19 :
                (\A j \in 1..(i - 1) : DigitValue(n[j]) = max[j]) => DigitValue(n[i]) <= max[i]

\* the maximal runs of digits of text, each from its first digit to its last
DigitRunsOf(text) ==
    { SubSeq(text, i, j) : <<i, j>> \in
        { w \in (1..Len(text)) \X (1..Len(text)) :
            /\ w[1] <= w[2]
            /\ \A k \in w[1]..w[2] : text[k] \in Digits
            /\ w[1] = 1 \/ text[w[1] - 1] \notin Digits
            /\ w[2] = Len(text) \/ text[w[2] + 1] \notin Digits } }

\* every maximal run of digits of text fits i64
DigitRunsFit(text) == \A run \in DigitRunsOf(text) : WithinI64(run)

\* what C5 states does hold of the texts whose digit runs fit i64
UnrecognizedCharacterFailsUnlessAborted ==
    (HasUnrecognized(input) /\ DigitRunsFit(input) /\ pc # "tokenizer") =>
        /\ tokenized = Err(UnrecognizedMessage(FirstUnrecognized(input)))
        /\ tokens = <<>>

\* C6: once parse_factor has consumed a LeftParen and the enclosed
\* parse_expression has succeeded, it returns Ok only if the next unconsumed
\* token is RightParen, which it consumes; on anything else (EOF, another
\* token, no token) it fails with a SyntaxError reporting what it found,
\* without consuming it, and the error is what the whole parse returns.
\* In particular ( 2 + 3 fails to parse.
C6_ClosingParenRequired ==
    [][/\ (InParser("parse_factor", "paren") /\ ret.kind = "Ok") =>
            IF Peek = RightParen
            THEN current' = current + 1 /\ ret' = OkNode(ret.node)
            ELSE current' = current /\ ret' = Err(ExpectedParen(Peek))
       /\ (pc = "parser" /\ ret.kind = "Err") => (ret' = ret /\ current' = current)
       /\ (pc' = "done" /\ tokens' = <<LeftParen, N("2"), Plus, N("3"), EOF>>)
            => (ret' = Err(ExpectedParen(EOF)) /\ current' = 4)
       /\ (pc' = "done" /\ tokens' = <<LeftParen, N("2"), Plus, N("3")>>)
            => (ret' = Err(ExpectedParen(None)) /\ current' = 4)]_vars

C6_Witness ==
    /\ pc = "done"
    /\ tokens = <<LeftParen, N("2"), Plus, N("3"), EOF>>
    /\ ret = Err(ExpectedParen(EOF))
    /\ current = 4

\* a complete AST: numbers at the leaves, one of the four operators at each
\* BinaryOp
RECURSIVE IsAST(_)
IsAST(node) ==
    \/ node.kind = "Number" /\ DOMAIN node = {"kind", "value"}
    \/ /\ node.kind = "BinaryOp"
       /\ node.op \in Operators
       /\ IsAST(node.left)
       /\ IsAST(node.right)

ReturnedAST == tokenized.kind = "Ok" /\ ret.kind = "Ok" /\ IsAST(ret.node)

ReturnedSyntaxError ==
    \/ tokenized.kind = "Err" /\ ret = Pending
    \/ tokenized.kind = "Ok" /\ ret.kind = "Err"

\* C7: on every input text whose digit runs fit i64, tokenizer followed by
\* parse never aborts (unwrap and the two expect calls do not fail), does not
\* stop before main has an outcome, and ends with exactly one of an AST and a
\* SyntaxError.
C7_NoAbort ==
    DigitRunsFit(input) =>
        /\ pc # "panic"
        /\ pc # "done" => ENABLED Next
        /\ pc = "done" => (ReturnedAST /\ ~ReturnedSyntaxError)
                            \/ (ReturnedSyntaxError /\ ~ReturnedAST)

C7_Witness ==
    /\ pc = "done"
    /\ input = <<"0", "0">> \o I64MaxDigits \o <<"+", "1">>
    /\ ret = OkNode(BinaryOp(Plus, NumberNode(I64MaxDigits), NumberNode(<<"1">>)))

\* C8: parenthesization round trip.  When a token sequence parses to a tree
\* with every token before the final EOF consumed, the same sequence wrapped in
\* k >= 1 pairs of parentheses parses to the same tree; ( ( ( 5 ) ) ) yields
\* the tree of 5.
C8_ParenthesesAddNoNode ==
    pc = "done" =>
        /\ prev.mode = "wrap" => (ret = OkNode(prev.node) /\ current = Len(tokens) - 1)
        /\ tokens = <<LeftParen, LeftParen, LeftParen, N("5"),
                      RightParen, RightParen, RightParen, EOF>>
             => ret = OkNode(NumberNode(<<"5">>))

C8_Witness ==
    /\ pc = "done"
    /\ prev.mode = "wrap"
    /\ prev.pairs = 2
    /\ tokens = <<LeftParen, LeftParen, N("1"), Dash, N("2"), RightParen, RightParen, EOF>>
    /\ ret = OkNode(BinaryOp(Dash, NumberNode(<<"1">>), NumberNode(<<"2">>)))

\* C9: parse does not require the cursor to reach EOF.  When parse succeeds
\* with tree T and cursor k, it succeeds with the same tree and the same cursor
\* on every token sequence that agrees on the indices 0..k, whatever follows;
\* 2 + 3 ) parses to Plus(2, 3) and leaves RightParen and EOF unconsumed.
C9_TrailingTokensIgnored ==
    pc = "done" =>
        /\ prev.mode = "extend" => (ret = OkNode(prev.node) /\ current = prev.current)
        /\ tokens = <<N("2"), Plus, N("3"), RightParen, EOF>>
             => /\ ret = OkNode(BinaryOp(Plus, NumberNode(<<"2">>), NumberNode(<<"3">>)))
                /\ current = 3

C9_Witness ==
    /\ pc = "done"
    /\ prev.mode = "extend"
    /\ tokens = <<N("1"), Star, N("2"), RightParen, Plus>>
    /\ ret = OkNode(BinaryOp(Star, NumberNode(<<"1">>), NumberNode(<<"2">>)))
    /\ current = 3

====
